---- MODULE Spec2Model ----
(***************************************************************************)
(* Model of src/src/main.rs: an ESP32 relay controller.  HTTP handlers     *)
(* (/health, /push, fallback) run on worker contexts, the main thread      *)
(* redraws the display once a second, and both share the log queue         *)
(* Arc<Mutex<heapless::spsc::Queue<String, 10>>>.                           *)
(***************************************************************************)
EXTENDS Integers, Sequences, FiniteSets, TLC

(* ---------------------------------------------------------------- bounds *)
NumWorkers == 2        \* handler contexts the server runs at the same time
MaxRequests == 2       \* requests accepted in one behaviour
MaxTicks == 1          \* seconds the wall clock advances in one behaviour

(* ----------------------------------------------------- program constants *)
N == 10                \* Queue<String, 10>
StartY == 30           \* let mut y = 30
LinePitch == 12        \* y += 12
AddrY == 10            \* Point::new(0, 10)
StatusOk == 200
StatusNotFound == 404

Workers == 1..NumWorkers
Main == 0              \* the main thread, as owner of the log mutex
Free == -1             \* the log mutex is not held

\* the requests sent to the server: <<method, path>>
Requests == {<<"GET", "/health">>, <<"GET", "/push">>, <<"POST", "/push">>}

\* r#"{ "status": "up" }"# and r#"{ "success": true }"#, one token per
\* JSON token or blank
HealthBody == <<"{", " ", "\"status\"", ":", " ", "\"up\"", " ", "}">>
PushBody == <<"{", " ", "\"success\"", ":", " ", "true", " ", "}">>

\* let ip_address = ip_info.ip.to_string();
ip_address == "ip_info.ip"

\* the wall clock at start-up: two seconds before midnight, local time
StartClock == 86398
SecondsPerDay == 86400

VARIABLES relay,      \* level of GPIO5: TRUE = high = relay closed
          queue,      \* content of the log queue, oldest first
          lock,       \* owner of the log mutex, or Free
          poisoned,   \* a thread panicked while holding the log mutex
          w,          \* per worker: the handler invocation it runs
          main_pc,    \* position of the main thread
          it,         \* update_display: index of the next entry of queue.iter()
          y,          \* update_display: let mut y
          frame,      \* the draw operations of the render cycle in progress
          clock,      \* SystemTime::now(), in seconds
          accepted,   \* requests taken from the network so far
          history     \* every entry enqueued so far, in order

vars == <<relay, queue, lock, poisoned, w, main_pc, it, y, frame, clock,
          accepted, history>>

(* ------------------------------------------------------------ the queue *)
\* heapless::spsc::Queue<T, N> keeps one slot free: it holds N - 1 items
Capacity == N - 1

\* mutant: the fullness test fires only past the declared size
is_full_late(q) == Len(q) > N

is_full(q) == Len(q) = Capacity

\* mutant: the newest item is removed
dequeue_newest(q) == IF q = <<>> THEN q ELSE SubSeq(q, 1, Len(q) - 1)

\* dequeue(): removes the oldest item, None on an empty queue
dequeue(q) == IF q = <<>> THEN q ELSE Tail(q)

\* mutant: the new item is put at the head
enqueue_front(q, e) == IF ~is_full(q) THEN <<e>> \o q ELSE q

\* enqueue(item): Err(item) on a full queue, which is left as it was
enqueue_ok(q) == ~is_full(q)
enqueue(q, e) == IF enqueue_ok(q) THEN Append(q, e) ELSE q

(* ------------------------------------------------------------ log entry *)
\* datetime.format("%H:%M:%S")
FormatTime(t) == <<((t % SecondsPerDay) \div 3600),
                   ((t % SecondsPerDay) \div 60) % 60,
                   t % 60>>

\* format!("{} {} {}", datetime.format("%H:%M:%S"), status, path)
LogEntry(t, status, path) == <<FormatTime(t), status, path>>

NoEntry == <<>>

(* --------------------------------------------------------------- router *)
\* fn_handler("/health", Get, ..), fn_handler("/push", Get, ..), handler(..)
Route(method, path) ==
    IF method = "GET" /\ path = "/health" THEN "health"
    ELSE IF method = "GET" /\ path = "/push" THEN "push"
    ELSE "fallback"

IdleWorker == [pc |-> "idle", kind |-> "none", path |-> "", status |-> 0,
               body |-> <<>>, log_status |-> 0, log_path |-> "",
               entry |-> NoEntry,
               result |-> "none", afault |-> FALSE, dropout |-> FALSE,
               logged |-> <<>>]

FirstPc(kind) == CASE kind = "health" -> "health_resp"
                   [] kind = "push" -> "push_high"
                   [] OTHER -> "fb_resp"

Init ==
    /\ relay = FALSE
    /\ queue = <<>>
    /\ lock = Free
    /\ poisoned = FALSE
    /\ w = [h \in Workers |-> IdleWorker]
    /\ main_pc = "clear"
    /\ it = 0
    /\ y = 0
    /\ frame = <<>>
    /\ clock = StartClock
    /\ accepted = 0
    /\ history = <<>>

(* ------------------------------------------------------------- handlers *)
\* the server hands a request to a free worker context
Dispatch(h, method, path) ==
    /\ w[h].pc = "idle"
    /\ main_pc # "exited"
    /\ w' = [w EXCEPT ![h] = [IdleWorker EXCEPT !.pc = FirstPc(Route(method, path)),
                                                !.kind = Route(method, path),
                                                !.path = path]]
    /\ accepted' = accepted + 1
    /\ UNCHANGED <<relay, queue, lock, poisoned, main_pc, it, y, frame,
                   clock, history>>

Accept(h) ==
    /\ accepted < MaxRequests
    /\ \E req \in Requests : Dispatch(h, req[1], req[2])

\* a handler returns Err(..) through `?`
Fail(h) == [w EXCEPT ![h].pc = "done", ![h].result = "err"]

\* mutant: log_request is called before the response is written
HealthRespond_LogFirst(h) ==
    /\ w[h].pc = "health_resp"
    /\ w' = [w EXCEPT ![h].pc = "log_time",
                      ![h].log_status = StatusOk, ![h].log_path = "/health"]
    /\ UNCHANGED <<relay, queue, lock, poisoned, main_pc, it, y, frame,
                   clock, accepted, history>>

\* mutant: the handler returns without the call of log_request
HealthRespond_NoLog(h) ==
    /\ w[h].pc = "health_resp"
    /\ \/ w' = [w EXCEPT ![h].pc = "done", ![h].result = "err"]
       \/ w' = [w EXCEPT ![h].pc = "done", ![h].result = "err",
                         ![h].status = StatusOk]
       \/ w' = [w EXCEPT ![h].pc = "done", ![h].result = "ok",
                         ![h].status = StatusOk, ![h].body = HealthBody]
    /\ UNCHANGED <<relay, queue, lock, poisoned, main_pc, it, y, frame,
                   clock, accepted, history>>

\* let mut resp = req.into_ok_response()?;
\* resp.write_all(response_body.as_bytes())?;
\* and log_request(&log_queue, 200, "/health") is entered
HealthRespond(h) ==
    /\ w[h].pc = "health_resp"
    /\ \/ w' = Fail(h)
       \/ w' = [Fail(h) EXCEPT ![h].status = StatusOk]
       \/ w' = [w EXCEPT ![h].pc = "log_time", ![h].status = StatusOk,
                         ![h].body = HealthBody,
                         ![h].log_status = StatusOk, ![h].log_path = "/health"]
    /\ UNCHANGED <<relay, queue, lock, poisoned, main_pc, it, y, frame,
                   clock, accepted, history>>

\* mutant: the response is sent before the pulse
PushHigh_RespondFirst(h) ==
    /\ w[h].pc = "push_high"
    /\ \/ /\ relay' = TRUE
          /\ w' = [w EXCEPT ![h].pc = "push_hold", ![h].status = StatusOk,
                            ![h].body = PushBody]
       \/ /\ relay' \in {relay, TRUE}
          /\ w' = [w EXCEPT ![h].pc = "done", ![h].result = "err",
                            ![h].afault = TRUE]
    /\ UNCHANGED <<queue, lock, poisoned, main_pc, it, y, frame, clock,
                   accepted, history>>

\* relay.set_high()?;  a failing call may or may not have driven the pin
PushHigh(h) ==
    /\ w[h].pc = "push_high"
    /\ \/ /\ relay' = TRUE
          /\ w' = [w EXCEPT ![h].pc = "push_hold"]
       \/ /\ relay' \in {relay, TRUE}
          /\ w' = [Fail(h) EXCEPT ![h].afault = TRUE]
    /\ UNCHANGED <<queue, lock, poisoned, main_pc, it, y, frame, clock,
                   accepted, history>>

\* the pin goes low under the handlers that are holding it high: their
\* hold is cut short (dropout records it)
Released(ws, h) ==
    [g \in Workers |-> IF g # h /\ ws[g].pc = "push_hold"
                       THEN [ws[g] EXCEPT !.dropout = TRUE] ELSE ws[g]]

\* mutant: the result of set_low is dropped instead of returned with `?`
PushLow_Swallow(h) ==
    /\ w[h].pc = "push_hold"
    /\ \/ /\ relay' = FALSE
          /\ w' = Released([w EXCEPT ![h].pc = "push_resp"], h)
       \/ /\ relay' = FALSE
          /\ w' = Released([w EXCEPT ![h].pc = "push_resp", ![h].afault = TRUE], h)
       \/ /\ relay' = relay
          /\ w' = [w EXCEPT ![h].pc = "push_resp", ![h].afault = TRUE]
    /\ UNCHANGED <<queue, lock, poisoned, main_pc, it, y, frame, clock,
                   accepted, history>>

\* std::thread::sleep(500ms) is over;  relay.set_low()?;
\* a failing call may or may not have driven the pin
PushLow(h) ==
    /\ w[h].pc = "push_hold"
    /\ \/ /\ relay' = FALSE
          /\ w' = Released([w EXCEPT ![h].pc = "push_resp"], h)
       \/ /\ relay' = FALSE
          /\ w' = Released([Fail(h) EXCEPT ![h].afault = TRUE], h)
       \/ /\ relay' = relay
          /\ w' = [Fail(h) EXCEPT ![h].afault = TRUE]
    /\ UNCHANGED <<queue, lock, poisoned, main_pc, it, y, frame, clock,
                   accepted, history>>

\* mutant: the log line of /health pasted into the /push handler
PushRespond_HealthPath(h) ==
    /\ w[h].pc = "push_resp"
    /\ \/ w' = [w EXCEPT ![h].pc = "done", ![h].result = "err"]
       \/ w' = [w EXCEPT ![h].pc = "done", ![h].result = "err",
                         ![h].status = StatusOk]
       \/ w' = [w EXCEPT ![h].pc = "log_time", ![h].status = StatusOk,
                         ![h].body = PushBody,
                         ![h].log_status = StatusOk, ![h].log_path = "/health"]
    /\ UNCHANGED <<relay, queue, lock, poisoned, main_pc, it, y, frame,
                   clock, accepted, history>>

\* let mut resp = req.into_ok_response()?;
\* resp.write_all(response_body.as_bytes())?;
\* and log_request(&log_queue, 200, "/push") is entered
PushRespond(h) ==
    /\ w[h].pc = "push_resp"
    /\ \/ w' = Fail(h)
       \/ w' = [Fail(h) EXCEPT ![h].status = StatusOk]
       \/ w' = [w EXCEPT ![h].pc = "log_time", ![h].status = StatusOk,
                         ![h].body = PushBody,
                         ![h].log_status = StatusOk, ![h].log_path = "/push"]
    /\ UNCHANGED <<relay, queue, lock, poisoned, main_pc, it, y, frame,
                   clock, accepted, history>>

\* mutant: the fallback logs 200 as the two endpoints do
FallbackResp_Log200(h) ==
    /\ w[h].pc = "fb_resp"
    /\ \/ w' = [w EXCEPT ![h].pc = "log_time", ![h].status = StatusNotFound,
                         ![h].log_status = StatusOk, ![h].log_path = w[h].path]
       \/ w' = [w EXCEPT ![h].pc = "done", ![h].result = "err"]
    /\ UNCHANGED <<relay, queue, lock, poisoned, main_pc, it, y, frame,
                   clock, accepted, history>>

\* let path = req.path().to_string();  req.into_response(404, None, &[])?;
\* then log_request(.., 404, &path)
FallbackResp(h) ==
    /\ w[h].pc = "fb_resp"
    /\ \/ w' = [w EXCEPT ![h].pc = "log_time", ![h].status = StatusNotFound,
                         ![h].log_status = StatusNotFound,
                         ![h].log_path = w[h].path]
       \/ w' = Fail(h)
    /\ UNCHANGED <<relay, queue, lock, poisoned, main_pc, it, y, frame,
                   clock, accepted, history>>

(* ---------------------------------------------------------- log_request *)
\* let timestamp = SystemTime::now(); .. let log_entry = format!(..);
LogTime(h) ==
    /\ w[h].pc = "log_time"
    /\ w' = [w EXCEPT ![h].pc = "log_lock",
                      ![h].entry = LogEntry(clock, w[h].log_status, w[h].log_path)]
    /\ UNCHANGED <<relay, queue, lock, poisoned, main_pc, it, y, frame,
                   clock, accepted, history>>

\* mutant: the handler does not wait for the mutex
LogLock_NoWait(h) ==
    /\ w[h].pc = "log_lock"
    /\ w' = [w EXCEPT ![h].pc = "log_append"]
    /\ lock' = h
    /\ UNCHANGED <<relay, queue, poisoned, main_pc, it, y, frame, clock,
                   accepted, history>>

\* let mut queue = log_queue.lock().unwrap();
LogLock(h) ==
    /\ w[h].pc = "log_lock"
    /\ lock = Free
    /\ IF poisoned
       THEN /\ w' = [w EXCEPT ![h].pc = "panicked"]
            /\ UNCHANGED lock
       ELSE /\ w' = [w EXCEPT ![h].pc = "log_append"]
            /\ lock' = h
    /\ UNCHANGED <<relay, queue, poisoned, main_pc, it, y, frame, clock,
                   accepted, history>>

\* mutant: the full queue is not relieved
evict_never(q) == q

\* if queue.is_full() { queue.dequeue(); }
evict(q) == IF is_full(q) THEN dequeue(q) ELSE q

\* if queue.is_full() { queue.dequeue(); }  queue.enqueue(log_entry).unwrap();
\* and the guard is dropped: on return, or by the unwinding of the panic
LogAppend(h) ==
    /\ w[h].pc = "log_append"
    /\ lock = h
    /\ queue' = enqueue(evict(queue), w[h].entry)
    /\ lock' = Free
    /\ IF enqueue_ok(evict(queue))
       THEN /\ w' = [w EXCEPT ![h].pc = "done", ![h].result = "ok",
                             ![h].logged = Append(w[h].logged, w[h].entry)]
            /\ history' = Append(history, w[h].entry)
            /\ UNCHANGED poisoned
       ELSE /\ w' = [w EXCEPT ![h].pc = "panicked"]
            /\ poisoned' = TRUE
            /\ UNCHANGED history
    /\ UNCHANGED <<relay, main_pc, it, y, frame, clock, accepted>>

\* the handler has returned; the worker context is free for the next request
Finish(h) ==
    /\ w[h].pc = "done"
    /\ w' = [w EXCEPT ![h] = IdleWorker]
    /\ UNCHANGED <<relay, queue, lock, poisoned, main_pc, it, y, frame,
                   clock, accepted, history>>

(* ------------------------------------------- main loop, update_display *)
\* update_display(..)? fails: main returns the error
MainExit == main_pc' = "exited"

\* display.clear(Rgb565::BLACK)?;
Clear ==
    /\ main_pc = "clear"
    /\ \/ /\ frame' = <<[op |-> "clear", y |-> 0, text |-> <<>>]>>
          /\ main_pc' = "addr"
       \/ /\ MainExit
          /\ frame' = <<>>
    /\ UNCHANGED <<relay, queue, lock, poisoned, w, it, y, clock, accepted,
                   history>>

\* Text::new(&format!("IP: {}", ip_address), Point::new(0, 10), ..).draw(display)?;
DrawAddress ==
    /\ main_pc = "addr"
    /\ \/ /\ frame' = Append(frame, [op |-> "text", y |-> AddrY, text |-> <<"IP: ", ip_address>>])
          /\ main_pc' = "lock"
       \/ /\ MainExit
          /\ frame' = <<>>
    /\ UNCHANGED <<relay, queue, lock, poisoned, w, it, y, clock, accepted,
                   history>>

\* let queue = log_queue.lock().unwrap();  let mut y = 30;  queue.iter()
DisplayLock ==
    /\ main_pc = "lock"
    /\ lock = Free
    /\ IF poisoned
       THEN /\ main_pc' = "panicked"
            /\ UNCHANGED <<lock, it, y>>
       ELSE /\ main_pc' = "iter"
            /\ lock' = Main
            /\ it' = 1
            /\ y' = StartY
    /\ UNCHANGED <<relay, queue, poisoned, w, frame, clock, accepted,
                   history>>

\* mutant: y is not advanced after a line
DrawEntry_SameLine ==
    /\ main_pc = "iter"
    /\ lock = Main
    /\ it <= Len(queue)
    /\ \/ /\ frame' = Append(frame, [op |-> "text", y |-> y, text |-> queue[it]])
          /\ it' = it + 1
          /\ UNCHANGED <<lock, main_pc, y>>
       \/ /\ main_pc' = "exited"
          /\ lock' = Free
          /\ it' = 0
          /\ y' = 0
          /\ frame' = <<>>
    /\ UNCHANGED <<relay, queue, poisoned, w, clock, accepted, history>>

\* mutant: the entries are taken out of the queue as they are drawn
DrawEntry_Drain ==
    /\ main_pc = "iter"
    /\ lock = Main
    /\ it <= Len(queue)
    /\ \/ /\ frame' = Append(frame, [op |-> "text", y |-> y, text |-> queue[it]])
          /\ y' = y + LinePitch
          /\ queue' = Tail(queue)
          /\ UNCHANGED <<lock, main_pc, it>>
       \/ /\ main_pc' = "exited"
          /\ lock' = Free
          /\ it' = 0
          /\ y' = 0
          /\ frame' = <<>>
          /\ UNCHANGED queue
    /\ UNCHANGED <<relay, poisoned, w, clock, accepted, history>>

\* mutant: the mutex is released only on the way out through Ok(())
DrawEntry_KeepLock ==
    /\ main_pc = "iter"
    /\ lock = Main
    /\ it <= Len(queue)
    /\ \/ /\ frame' = Append(frame, [op |-> "text", y |-> y, text |-> queue[it]])
          /\ y' = y + LinePitch
          /\ it' = it + 1
          /\ UNCHANGED <<lock, main_pc>>
       \/ /\ main_pc' = "exited"
          /\ frame' = <<>>
          /\ UNCHANGED <<lock, it, y>>
    /\ UNCHANGED <<relay, queue, poisoned, w, clock, accepted, history>>

\* for log_entry in queue.iter() { Text::new(log_entry, Point::new(0, y), ..)
\*     .draw(display)?;  y += 12; }
DrawEntry ==
    /\ main_pc = "iter"
    /\ lock = Main
    /\ it <= Len(queue)
    /\ \/ /\ frame' = Append(frame, [op |-> "text", y |-> y, text |-> queue[it]])
          /\ y' = y + LinePitch
          /\ it' = it + 1
          /\ UNCHANGED <<lock, main_pc>>
       \/ /\ MainExit
          /\ lock' = Free
          /\ it' = 0
          /\ y' = 0
          /\ frame' = <<>>
    /\ UNCHANGED <<relay, queue, poisoned, w, clock, accepted, history>>

\* the iterator is exhausted: Ok(()), the guard is dropped
DisplayDone ==
    /\ main_pc = "iter"
    /\ lock = Main
    /\ it > Len(queue)
    /\ main_pc' = "sleep"
    /\ lock' = Free
    /\ it' = 0
    /\ y' = 0
    /\ frame' = <<>>
    /\ UNCHANGED <<relay, queue, poisoned, w, clock, accepted, history>>

\* mutant: update_display is called once, without the loop
Sleep_Once ==
    /\ main_pc = "sleep"
    /\ main_pc' = "exited"
    /\ UNCHANGED <<relay, queue, lock, poisoned, w, it, y, frame, clock,
                   accepted, history>>

\* std::thread::sleep(Duration::from_millis(1000));  and the loop repeats
Sleep ==
    /\ main_pc = "sleep"
    /\ main_pc' = "clear"
    /\ UNCHANGED <<relay, queue, lock, poisoned, w, it, y, frame, clock,
                   accepted, history>>

\* the wall clock advances by one second
Tick ==
    /\ clock < StartClock + MaxTicks
    /\ clock' = clock + 1
    /\ UNCHANGED <<relay, queue, lock, poisoned, w, main_pc, it, y, frame,
                   accepted, history>>

Handler(h) ==
    \/ HealthRespond(h)
    \/ PushHigh(h) \/ PushLow(h) \/ PushRespond(h)
    \/ FallbackResp(h)
    \/ LogTime(h) \/ LogLock(h) \/ LogAppend(h)
    \/ Finish(h)

Render == Clear \/ DrawAddress \/ DisplayLock \/ DrawEntry \/ DisplayDone \/ Sleep

Next ==
    \/ \E h \in Workers : Accept(h)
    \/ \E h \in Workers : Handler(h)
    \/ Render
    \/ Tick

Spec == Init /\ [][Next]_vars

\* The log after Capacity requests GET /health were served one after the
\* other in the first second, before the first render cycle: the queue is
\* full, so that the next requests evict from it.
Prefill == [i \in 1..Capacity |-> LogEntry(StartClock, StatusOk, "/health")]

InitLog ==
    /\ relay = FALSE
    /\ queue = Prefill
    /\ lock = Free
    /\ poisoned = FALSE
    /\ w = [h \in Workers |-> IdleWorker]
    /\ main_pc = "clear"
    /\ it = 0
    /\ y = 0
    /\ frame = <<>>
    /\ clock = StartClock
    /\ accepted = 0
    /\ history = Prefill

\* the handlers and the clock alone: the behaviours in which the main thread
\* is not scheduled
NextLog ==
    \/ \E h \in Workers : Accept(h)
    \/ \E h \in Workers : Handler(h)
    \/ Tick

SpecLog == InitLog /\ [][NextLog]_vars

\* The contention for the log mutex: requests GET /health, whose handler
\* goes straight to log_request, and the main loop, within one second of
\* the wall clock.
AcceptLive(h) ==
    /\ accepted < MaxRequests
    /\ Dispatch(h, "GET", "/health")

HandlerLive(h) ==
    \/ HealthRespond(h)
    \/ LogTime(h) \/ LogLock(h) \/ LogAppend(h)
    \/ Finish(h)

NextLive ==
    \/ \E h \in Workers : AcceptLive(h)
    \/ \E h \in Workers : HandlerLive(h)
    \/ Render

\* Scheduling: every thread that can take a step eventually takes one, and
\* a thread blocked in lock() eventually gets the mutex when it is released
\* again and again (the main thread sleeps a second between two cycles).
Fairness ==
    /\ \A h \in Workers : WF_vars(HandlerLive(h)) /\ SF_vars(LogLock(h))
    /\ WF_vars(Render)
    /\ SF_vars(DisplayLock)

FairSpec == Init /\ [][NextLive]_vars /\ Fairness

\* the handlers and the main loop within one second of the wall clock
NextSecond ==
    \/ \E h \in Workers : Accept(h)
    \/ \E h \in Workers : Handler(h)
    \/ Render

\* the handlers and the main loop on the full log
SpecFull == InitLog /\ [][NextSecond]_vars

TypeOK ==
    /\ relay \in BOOLEAN
    /\ lock \in {Free, Main} \cup Workers
    /\ poisoned \in BOOLEAN
    /\ main_pc \in {"clear", "addr", "lock", "iter", "sleep", "exited", "panicked"}
    /\ accepted \in 0..MaxRequests

(* ================================================================ claims *)
\* a /push handler is between its entry and its return
PushInFlight(h) == w[h].kind = "push" /\ w[h].pc \notin {"done", "panicked"}

\* a handler has returned and its outcome is on record
Returned(h, kind) == w[h].kind = kind /\ w[h].pc = "done"

\* a JSON text without its insignificant blanks
StripBlanks(body) == SelectSeq(body, LAMBDA t : t # " ")
HealthJson == <<"{", "\"status\"", ":", "\"up\"", "}">>
PushJson == <<"{", "\"success\"", ":", "true", "}">>

\* the handler appended exactly one entry, with this status and path
LoggedOnce(h, status, path) ==
    /\ Len(w[h].logged) = 1
    /\ w[h].logged[1][2] = status
    /\ w[h].logged[1][3] = path

\* C1: the engaged intervals of two pulses never overlap: at most one /push
\* handler is between its set_high and its set_low.
C1_PulsesSerialized ==
    Cardinality({h \in Workers : w[h].pc = "push_hold"}) <= 1

\* C2: fail-safe release: whenever no /push handler is in flight, whatever
\* the exit path of the handlers that ran, the relay is disengaged.
C2_FailSafeRelease ==
    (\A h \in Workers : ~PushInFlight(h)) => relay = FALSE

\* C3: the activity log never holds more than N = 10 entries.
C3_LogBounded == Len(queue) <= N

C3_Witness == Len(history) > N /\ is_full(queue)

\* C4: once more than N entries were appended, the log is exactly the last
\* N = 10 appended entries, oldest first.
C4_LastN ==
    Len(history) > N =>
        queue = SubSeq(history, Len(history) - N + 1, Len(history))

\* C5 as stated: every GET /health is answered with 200 and {"status":"up"}
\* and appends exactly one entry (200, "/health").
C5_Original ==
    \A h \in Workers : Returned(h, "health") =>
        /\ w[h].status = StatusOk
        /\ StripBlanks(w[h].body) = HealthJson
        /\ LoggedOnce(h, StatusOk, "/health")

\* C5 amended: a GET /health handler that returns Ok has answered with 200
\* and {"status":"up"} and appended exactly one entry (200, "/health"); one
\* that returns the error of into_ok_response or write_all has written no
\* body and appended no entry.
C5_Health ==
    \A h \in Workers : Returned(h, "health") =>
        IF w[h].result = "ok"
        THEN /\ w[h].status = StatusOk
             /\ StripBlanks(w[h].body) = HealthJson
             /\ LoggedOnce(h, StatusOk, "/health")
        ELSE /\ w[h].body = <<>>
             /\ w[h].logged = <<>>

C5_Witness ==
    \E h \in Workers : /\ Returned(h, "health")
                        /\ w[h].result = "ok"
                        /\ w[h].logged # <<>>

\* C6 as stated: every GET /push served with a healthy actuator is answered
\* with 200 and {"success":true} and appends exactly one entry (200, "/push").
C6_Original ==
    \A h \in Workers : (Returned(h, "push") /\ ~w[h].afault) =>
        /\ w[h].status = StatusOk
        /\ StripBlanks(w[h].body) = PushJson
        /\ LoggedOnce(h, StatusOk, "/push")

\* C6 amended: a GET /push handler that returns Ok has answered with 200 and
\* {"success":true} and appended exactly one entry (200, "/push"); with a
\* healthy actuator the only other outcome is the error of into_ok_response
\* or write_all, and then no body was written and no entry appended.
C6_Push ==
    \A h \in Workers : (Returned(h, "push") /\ ~w[h].afault) =>
        IF w[h].result = "ok"
        THEN /\ w[h].status = StatusOk
             /\ StripBlanks(w[h].body) = PushJson
             /\ LoggedOnce(h, StatusOk, "/push")
        ELSE /\ w[h].body = <<>>
             /\ w[h].logged = <<>>

C6_Witness ==
    \E h \in Workers : /\ Returned(h, "push")
                        /\ w[h].result = "ok"
                        /\ w[h].logged # <<>>
                        /\ ~w[h].afault

\* C7: a /push whose set_high or set_low failed returns the error: the
\* handler produces no status 200 and no success body for that request.
C7_FaultPropagates ==
    \A h \in Workers : w[h].afault =>
        /\ w[h].pc = "done"
        /\ w[h].result = "err"
        /\ w[h].status # StatusOk
        /\ StripBlanks(w[h].body) # PushJson

C7_Witness ==
    \E h \in Workers : w[h].afault /\ w[h].pc = "done" /\ relay = TRUE

\* C8 as stated: every request that matches neither endpoint is answered
\* with 404 and an empty body and appends exactly one entry (404, its path).
C8_Original ==
    \A h \in Workers : Returned(h, "fallback") =>
        /\ w[h].status = StatusNotFound
        /\ w[h].body = <<>>
        /\ LoggedOnce(h, StatusNotFound, w[h].path)

\* C8 amended: a fallback handler that returns Ok has answered with 404 and
\* an empty body and appended exactly one entry (404, path of the request);
\* one that returns the error of into_response has appended no entry.
C8_Fallback ==
    \A h \in Workers : Returned(h, "fallback") =>
        /\ w[h].body = <<>>
        /\ IF w[h].result = "ok"
           THEN /\ w[h].status = StatusNotFound
                /\ LoggedOnce(h, StatusNotFound, w[h].path)
           ELSE w[h].logged = <<>>

C8_Witness ==
    \E h \in Workers : /\ Returned(h, "fallback")
                        /\ w[h].result = "ok"
                        /\ w[h].logged # <<>>
                        /\ w[h].path = "/push"

\* C9: a pulse that completes successfully (set_high and set_low both
\* returned Ok) kept the relay engaged from its set_high to its own set_low:
\* no other activity disengaged it during the hold; and the relay is
\* disengaged at the step at which its handler returns.
C9_PulseHeld ==
    [][\A h \in Workers :
         /\ (w[h].pc = "push_hold" /\ w'[h].pc = "push_resp")
                => ~w'[h].dropout
         /\ (w[h].kind = "push" /\ w[h].pc = "log_append" /\ w'[h].pc = "done")
                => relay' = FALSE]_vars

\* C10: no I/O under the log lock: the main thread does not draw and a
\* handler does not write to the network while it holds the log mutex.
C10_NoIoUnderLock ==
    /\ lock = Main => ~(main_pc = "iter" /\ it <= Len(queue))
    /\ \A h \in Workers : lock = h => w[h].pc = "log_append"

\* the log lines of a frame: what was drawn after the clear and the address
LogLines(f) == [i \in 1..(Len(f) - 2) |-> f[i + 2].text]

\* C11: the log lines drawn in one render cycle are the content of the log
\* at one instant: while update_display iterates, no append takes effect,
\* and the lines drawn so far are the first entries of the log as it is.
C11_ConsistentSnapshot ==
    [][main_pc = "iter" =>
         /\ queue' = queue
         /\ LogLines(frame) = SubSeq(queue, 1, it - 1)]_vars

C11_Witness ==
    /\ main_pc = "iter"
    /\ it > 1
    /\ \E h \in Workers : w[h].pc = "log_lock"

\* the frame of a complete render cycle on the log q
ExpectedFrame(q) ==
    <<[op |-> "clear", y |-> 0, text |-> <<>>],
      [op |-> "text", y |-> 10, text |-> <<"IP: ", ip_address>>]>>
    \o [i \in 1..Len(q) |-> [op |-> "text", y |-> 30 + 12 * (i - 1), text |-> q[i]]]

\* C12: a render cycle that completes on a log of k entries has cleared the
\* surface, drawn the address line at y = 10 and then the k log lines,
\* oldest first, the i-th (from 0) at y = 30 + 12 * i.
C12_RenderLayout ==
    (main_pc = "iter" /\ it > Len(queue)) => frame = ExpectedFrame(queue)

C12_Witness ==
    /\ main_pc = "iter"
    /\ it > Len(queue)
    /\ Len(queue) = 9
    /\ queue[8] # queue[9]

\* C13: the entry appended last is the last element of the log, and so of a
\* snapshot taken before the next append.
C13_LastAppended ==
    history # <<>> =>
        (queue # <<>> /\ queue[Len(queue)] = history[Len(history)])

C13_Witness ==
    /\ Len(history) > Capacity
    /\ history[Len(history)] # Prefill[1]

\* C14: under fair scheduling every context that waits for the log mutex
\* gets it, and every holder releases it, also when a display fault is
\* raised while the main thread holds it.
C14_LockLiveness ==
    /\ \A h \in Workers : /\ (w[h].pc = "log_lock") ~> (lock = h)
                          /\ (lock = h) ~> (lock # h)
    /\ (main_pc = "lock") ~> (lock = Main)
    /\ (lock = Main) ~> (lock # Main)

C14_Witness ==
    /\ lock = Main
    /\ it <= Len(queue)
    /\ \E h \in Workers : w[h].pc = "log_lock"

\* C15: the main loop starts one render cycle after the other; it stops
\* only by a display fault raised in a render cycle, and then for good; as
\* long as no display fault occurs another cycle eventually starts.
C15_ControlLoop ==
    /\ [][main_pc = "exited" => main_pc' = "exited"]_vars
    /\ [][(main_pc # "exited" /\ main_pc' = "exited")
            => main_pc \in {"clear", "addr", "iter"}]_vars
    /\ []<>(main_pc = "clear") \/ <>(main_pc = "exited")

C15_Witness == main_pc = "sleep" /\ queue # <<>>

\* the response of a handler is written: the status line, and for the two
\* endpoints the body
Responded(h) == w[h].status # 0 /\ (w[h].kind = "fallback" \/ w[h].body # <<>>)

\* C16 as stated: every handled request appends exactly one entry, and the
\* handler takes the log lock and appends only after its response is written.
C16_Original ==
    \A h \in Workers :
        /\ w[h].pc = "done" => Len(w[h].logged) = 1
        /\ (lock = h \/ w[h].logged # <<>>) => Responded(h)

\* C16 amended: a handler that returns Ok has appended exactly one entry, a
\* handler that returns an error (of the relay or of the response) none;
\* no handler takes the log lock or appends before its response is written.
C16_AppendAfterResponse ==
    \A h \in Workers :
        /\ Len(w[h].logged) <= 1
        /\ w[h].pc = "done" =>
               Len(w[h].logged) = (IF w[h].result = "ok" THEN 1 ELSE 0)
        /\ (lock = h \/ w[h].logged # <<>>) => Responded(h)

C16_Witness ==
    \E h \in Workers : lock = h /\ w[h].kind = "push" /\ w[h].body = PushBody

\* C17: an append never fails: a handler that holds the log lock finds room
\* after the conditional dequeue, no thread panics and the mutex is never
\* poisoned.
C17_AppendNeverFails ==
    /\ ~poisoned
    /\ main_pc # "panicked"
    /\ \A h \in Workers : /\ w[h].pc # "panicked"
                          /\ lock = h => Len(evict(queue)) < Capacity

C17_Witness == \E h \in Workers : lock = h /\ Len(queue) = Capacity

\* C18: the log changes only by an append, which removes at most the oldest
\* entry and adds the new one at the tail; a render cycle leaves it as it
\* is; the relay changes only in the set_high or set_low of a /push handler.
C18_FrameEffect ==
    [][/\ queue' # queue =>
            \E h \in Workers :
               /\ w[h].pc = "log_append" /\ w'[h].pc = "done"
               /\ \/ queue' = Append(queue, w[h].entry)
                  \/ queue' = Append(Tail(queue), w[h].entry)
       /\ main_pc' # main_pc => queue' = queue
       /\ relay' # relay =>
            \E h \in Workers :
               /\ w[h].kind = "push"
               /\ w[h].pc \in {"push_high", "push_hold"}
               /\ w'[h].pc # w[h].pc]_vars

C18_Witness ==
    /\ main_pc = "iter"
    /\ it > 1
    /\ Len(history) > Capacity

\* hour:minute:second a is not later than b
TimeLeq(a, b) ==
    \/ a[1] < b[1]
    \/ a[1] = b[1] /\ a[2] < b[2]
    \/ a[1] = b[1] /\ a[2] = b[2] /\ a[3] <= b[3]

\* C19 as stated: the entries of the log are ordered by their timestamps,
\* the one nearer the head being not later than the one nearer the tail.
C19_Original ==
    \A i, j \in 1..Len(queue) : i < j => TimeLeq(queue[i][1], queue[j][1])

\* C19 amended: the entries of the log are ordered by their insertion: the
\* log is the latest appended entries in the order of their appends (the
\* order in which the handlers took the lock); their timestamps, taken
\* before the lock, need not be in that order.
C19_InsertionOrder ==
    /\ Len(queue) <= Len(history)
    /\ queue = SubSeq(history, Len(history) - Len(queue) + 1, Len(history))

C19_Witness ==
    \E i, j \in 1..Len(queue) : i < j /\ ~TimeLeq(queue[i][1], queue[j][1])

\* C20: a /push handler writes its response only after its set_low has
\* returned Ok, appends to the log only after the response, and does not
\* hold the log lock from its set_high to its set_low.
C20_PushOrder ==
    \A h \in Workers : w[h].kind = "push" =>
        /\ w[h].pc \in {"push_high", "push_hold"} =>
               (w[h].status = 0 /\ w[h].body = <<>> /\ lock # h)
        /\ w[h].afault => (w[h].status = 0 /\ w[h].body = <<>>)
        /\ (lock = h \/ w[h].logged # <<>>) =>
               (w[h].status = StatusOk /\ StripBlanks(w[h].body) = PushJson)

C20_Witness ==
    \E h \in Workers : /\ w[h].kind = "push"
                        /\ w[h].pc = "done"
                        /\ w[h].result = "ok"
                        /\ relay = FALSE
====
